---------------------------- MODULE Spec2Model ----------------------------
(***************************************************************************)
(* ScrapeConf.Load of pkg/config.go: decode a YAML document into the       *)
(* receiver, default empty RoleArns lists to [""], validate fail-fast.     *)
(*                                                                         *)
(* A Go slice whose nil-ness the code reads (Discovery.Jobs, Static) is a  *)
(* record [nil, elems]; every other slice is only measured with len() and  *)
(* is a plain sequence.  A message (an error, a log line) is the sequence  *)
(* of the fragments fmt writes, in order: the pieces of the format string  *)
(* and the formatted arguments.  The nil error is the empty sequence.      *)
(***************************************************************************)
EXTENDS Integers, Sequences, FiniteSets, TLC

VARIABLES
    c,        \* the receiver *ScrapeConf
    file,     \* the file Load is pointed at: [status, doc]
    decoded,  \* the receiver right after yaml.Unmarshal of the last Load
    err,      \* what the last Load returned
    log,      \* what the last Load wrote with log.Warningf, in order
    pc        \* "start": Load not yet called on this file; "done": Load returned

vars == <<c, file, decoded, err, log, pc>>

-----------------------------------------------------------------------------
(* Bounds of the documents drawn in Init. *)
MaxDiscoveryJobs == 2
MaxStaticJobs == 2
MaxMetrics == 2

-----------------------------------------------------------------------------
(* Go values *)

NilSlice == [nil |-> TRUE, elems |-> <<>>]
Slice(s) == [nil |-> FALSE, elems |-> s]

NilMap == [nil |-> TRUE, entries |-> <<>>]

\* ScrapeConf{}: every field at its zero value.
ZeroScrapeConf ==
    [Discovery |-> [ExportedTagsOnMetrics |-> NilMap, Jobs |-> NilSlice],
     Static    |-> NilSlice]

NoError == <<>>

supportedServices ==
    <<"alb", "apigateway", "appsync", "asg", "cf", "docdb", "dynamodb", "ebs",
      "ec", "ec2", "ec2Spot", "ecs-svc", "ecs-containerinsights", "efs", "elb",
      "emr", "es", "firehose", "fsx", "gamelift", "kafka", "kinesis", "lambda",
      "ngw", "nlb", "rds", "redshift", "r53r", "s3", "sfn", "sns", "sqs", "tgw",
      "tgwa", "vpn", "wafv2">>

\* Exact, case-sensitive membership in a list of strings.
stringInSlice(a, list) == \E i \in 1..Len(list) : list[i] = a

-----------------------------------------------------------------------------
(* fmt *)

Digits == <<"0", "1", "2", "3", "4", "5", "6", "7", "8", "9">>

\* %d: the decimal digits of i, with a leading "-" when negative.
RECURSIVE Itoa(_)
Itoa(i) ==
    IF i < 0 THEN <<"-">> \o Itoa(0 - i)
    ELSE IF i < 10 THEN <<Digits[i + 1]>>
    ELSE Itoa(i \div 10) \o <<Digits[(i % 10) + 1]>>

\* Whether string s occurs in the message: the empty string occurs in every
\* message; any other string of the model occurs when it is one of the
\* fragments (no fragment of a format string is a Type of a document).
Contains(msg, s) == s = "" \/ \E i \in 1..Len(msg) : msg[i] = s

-----------------------------------------------------------------------------
(* yaml.Unmarshal into the receiver.                                       *)
(*                                                                         *)
(* A sequence-valued key of the document is a node [tag, items]: "absent"  *)
(* (the key is not in the document: the field keeps the value it has),     *)
(* "null" (key with no value: the slice is set to nil) or "seq" (a fresh   *)
(* slice of len(items) fresh elements replaces the field, so a key omitted *)
(* inside an element leaves the zero value).  A mapping-valued key fills   *)
(* the map the field already holds, creating it when nil.  Keys carry the  *)
(* yaml tags of the struct fields.                                         *)

unmarshalMetric(md) ==
    [Name                   |-> md.name,
     Statistics             |-> md.statistics,
     AdditionalDimensions   |-> md.additionalDimensions,
     Period                 |-> md.period,
     Length                 |-> md.length,
     Delay                  |-> md.delay,
     NilToZero              |-> md.nilToZero,
     AddCloudwatchTimestamp |-> md.addCloudwatchTimestamp]

unmarshalStrings(node) == IF node.tag = "seq" THEN node.items ELSE <<>>

unmarshalJob(jd) ==
    [Period                 |-> jd.period,
     Length                 |-> jd.length,
     Delay                  |-> jd.delay,
     AddCloudwatchTimestamp |-> jd.addCloudwatchTimestamp,
     Regions                |-> jd.regions,
     Type                   |-> jd.type,
     RoleArns               |-> unmarshalStrings(jd.roleArns),
     AwsDimensions          |-> jd.awsDimensions,
     SearchTags             |-> jd.searchTags,
     CustomTags             |-> jd.customTags,
     Metrics                |-> [i \in 1..Len(jd.metrics) |-> unmarshalMetric(jd.metrics[i])]]

unmarshalStatic(sd) ==
    [Name       |-> sd.name,
     Regions    |-> sd.regions,
     RoleArns   |-> unmarshalStrings(sd.roleArns),
     CustomTags |-> sd.customTags,
     Metrics    |-> [i \in 1..Len(sd.metrics) |-> unmarshalMetric(sd.metrics[i])],
     Namespace  |-> sd.namespace,
     Dimensions |-> sd.dimensions]

unmarshalJobs(old, node) ==
    CASE node.tag = "absent" -> old
      [] node.tag = "null"   -> NilSlice
      [] OTHER -> Slice([i \in 1..Len(node.items) |-> unmarshalJob(node.items[i])])

unmarshalStatics(old, node) ==
    CASE node.tag = "absent" -> old
      [] node.tag = "null"   -> NilSlice
      [] OTHER -> Slice([i \in 1..Len(node.items) |-> unmarshalStatic(node.items[i])])

unmarshalTags(old, node) ==
    CASE node.tag = "absent" -> old
      [] node.tag = "null"   -> NilMap
      [] OTHER ->
           [nil |-> FALSE,
            entries |-> [k \in (DOMAIN old.entries) \cup (DOMAIN node.entries) |->
                            IF k \in DOMAIN node.entries THEN node.entries[k]
                            ELSE old.entries[k]]]

Unmarshal(doc, conf) ==
    [Discovery |->
        [ExportedTagsOnMetrics |->
            unmarshalTags(conf.Discovery.ExportedTagsOnMetrics,
                          doc.discovery.exportedTagsOnMetrics),
         Jobs |-> unmarshalJobs(conf.Discovery.Jobs, doc.discovery.jobs)],
     Static |-> unmarshalStatics(conf.Static, doc.static)]

-----------------------------------------------------------------------------
(* Load, lines 117-126: an empty RoleArns list becomes [""]. *)

DefaultRoleArns(job) ==
    IF Len(job.RoleArns) = 0 THEN [job EXCEPT !.RoleArns = <<"">>] ELSE job

\* The mutant: the inherited period and length are written into the metrics
\* of the discovery jobs while the role defaults are filled in.
setRoleArnsDefaultsInheriting(conf) ==
    LET inherit(j) ==
            [j EXCEPT !.Metrics =
                [k \in 1..Len(j.Metrics) |->
                    [j.Metrics[k] EXCEPT
                        !.Period = IF @ = 0 THEN j.Period ELSE @,
                        !.Length = IF @ = 0 THEN j.Length ELSE @]]]
    IN [conf EXCEPT
          !.Discovery.Jobs.elems =
              [n \in 1..Len(@) |-> inherit(DefaultRoleArns(@[n]))],
          !.Static.elems = [n \in 1..Len(@) |-> DefaultRoleArns(@[n])]]

\* The mutant: only the discovery jobs get the default.
setRoleArnsDefaultsDiscoveryOnly(conf) ==
    [conf EXCEPT
       !.Discovery.Jobs.elems = [n \in 1..Len(@) |-> DefaultRoleArns(@[n])]]

setRoleArnsDefaults(conf) ==
    [conf EXCEPT
       !.Discovery.Jobs.elems = [n \in 1..Len(@) |-> DefaultRoleArns(@[n])],
       !.Static.elems         = [n \in 1..Len(@) |-> DefaultRoleArns(@[n])]]

-----------------------------------------------------------------------------
(* The messages of validate, as fmt.Errorf and log.Warningf format them.   *)
(* jobIdx and metricIdx are Go's zero-based range indices.                 *)

RootError == <<"At least 1 Discovery job or 1 Static must be defined">>

UnknownServiceError(j, jobIdx) ==
    <<"Discovery job [">> \o Itoa(jobIdx)
        \o <<"]: Service is not in known list!: ", j.Type>>

EmptyTypeError(jobIdx) ==
    <<"Discovery job [">> \o Itoa(jobIdx) \o <<"]: Type should not be empty">>

DiscoveryParent(j, jobIdx) ==
    <<"Discovery job [", j.Type, "/">> \o Itoa(jobIdx) \o <<"]">>

StaticParent(j, jobIdx) ==
    <<"Static job [", j.Name, "/">> \o Itoa(jobIdx) \o <<"]">>

DiscoveryRegionsError(j, jobIdx) ==
    DiscoveryParent(j, jobIdx) \o <<": Regions should not be empty">>

DiscoveryMetricsError(j, jobIdx) ==
    DiscoveryParent(j, jobIdx) \o <<": Metrics should not be empty">>

StaticNamespaceError(j, jobIdx) ==
    StaticParent(j, jobIdx) \o <<": Namespace should not be empty">>

StaticRegionsError(j, jobIdx) ==
    StaticParent(j, jobIdx) \o <<": Regions should not be empty">>

StaticNameError(jobIdx) ==
    <<"Static job [">> \o Itoa(jobIdx) \o <<"]: Name should not be empty">>

MetricPrefix(m, metricIdx, parent) ==
    <<"Metric [", m.Name, "/">> \o Itoa(metricIdx) \o <<"] in ">> \o parent

MetricNameError(m, metricIdx, parent) ==
    MetricPrefix(m, metricIdx, parent) \o <<": Name should not be empty">>

MetricStatisticsError(m, metricIdx, parent) ==
    MetricPrefix(m, metricIdx, parent) \o <<": Statistics should not be empty">>

MetricPeriodError(m, metricIdx, parent) ==
    MetricPrefix(m, metricIdx, parent)
        \o <<": Period value should be a positive integer">>

LengthWarning(m, metricIdx, parent, mLength, mPeriod) ==
    MetricPrefix(m, metricIdx, parent) \o <<": length(">> \o Itoa(mLength)
        \o <<") is smaller than period(">> \o Itoa(mPeriod)
        \o <<"). This can cause that the data requested is not ready and generate data gaps">>

-----------------------------------------------------------------------------
(* validate.  Every operator yields [err, log]: the error returned and the *)
(* warnings logged on the way.  The pointer argument discovery is <<>> for *)
(* nil and <<j>> for &j.                                                   *)

Returned(e, l) == [err |-> e, log |-> l]

\* The mutant: a length shorter than the period is an error.
validateMetricStrictLength(m, metricIdx, parent, discovery) ==
    LET mPeriod == IF m.Period = 0 /\ discovery # <<>> THEN discovery[1].Period
                   ELSE m.Period
        mLength == IF m.Length = 0 /\ discovery # <<>> THEN discovery[1].Length
                   ELSE m.Length
    IN  IF m.Name = "" THEN Returned(MetricNameError(m, metricIdx, parent), <<>>)
        ELSE IF Len(m.Statistics) = 0
             THEN Returned(MetricStatisticsError(m, metricIdx, parent), <<>>)
        ELSE IF mPeriod < 1
             THEN Returned(MetricPeriodError(m, metricIdx, parent), <<>>)
        ELSE IF mLength < mPeriod
             THEN Returned(LengthWarning(m, metricIdx, parent, mLength, mPeriod), <<>>)
        ELSE Returned(NoError, <<>>)

\* The mutant: the period check is mPeriod < 0, so a period of 0 passes.
validateMetricZeroPeriod(m, metricIdx, parent, discovery) ==
    LET mPeriod == IF m.Period = 0 /\ discovery # <<>> THEN discovery[1].Period
                   ELSE m.Period
        mLength == IF m.Length = 0 /\ discovery # <<>> THEN discovery[1].Length
                   ELSE m.Length
    IN  IF m.Name = "" THEN Returned(MetricNameError(m, metricIdx, parent), <<>>)
        ELSE IF Len(m.Statistics) = 0
             THEN Returned(MetricStatisticsError(m, metricIdx, parent), <<>>)
        ELSE IF mPeriod < 0
             THEN Returned(MetricPeriodError(m, metricIdx, parent), <<>>)
        ELSE Returned(NoError,
                      IF mLength < mPeriod
                      THEN <<LengthWarning(m, metricIdx, parent, mLength, mPeriod)>>
                      ELSE <<>>)

validateMetric(m, metricIdx, parent, discovery) ==
    LET mPeriod == IF m.Period = 0 /\ discovery # <<>> THEN discovery[1].Period
                   ELSE m.Period
        mLength == IF m.Length = 0 /\ discovery # <<>> THEN discovery[1].Length
                   ELSE m.Length
    IN  IF m.Name = "" THEN Returned(MetricNameError(m, metricIdx, parent), <<>>)
        ELSE IF Len(m.Statistics) = 0
             THEN Returned(MetricStatisticsError(m, metricIdx, parent), <<>>)
        ELSE IF mPeriod < 1
             THEN Returned(MetricPeriodError(m, metricIdx, parent), <<>>)
        ELSE Returned(NoError,
                      IF mLength < mPeriod
                      THEN <<LengthWarning(m, metricIdx, parent, mLength, mPeriod)>>
                      ELSE <<>>)

\* for metricIdx, metric := range metrics { validateMetric(...) }, from the
\* i-th metric on, with the warnings logged so far.
RECURSIVE rangeMetrics(_, _, _, _, _)
rangeMetrics(metrics, i, parent, discovery, logged) ==
    IF i > Len(metrics) THEN Returned(NoError, logged)
    ELSE LET r == validateMetric(metrics[i], i - 1, parent, discovery)
         IN  IF r.err # NoError THEN Returned(r.err, logged \o r.log)
             ELSE rangeMetrics(metrics, i + 1, parent, discovery, logged \o r.log)

\* The mutant: a Type outside the list is reported as an empty one.
validateDiscoveryJobTypeUnnamed(j, jobIdx) ==
    IF j.Type = "" \/ ~stringInSlice(j.Type, supportedServices)
    THEN Returned(EmptyTypeError(jobIdx), <<>>)
    ELSE IF Len(j.Regions) = 0
    THEN Returned(DiscoveryRegionsError(j, jobIdx), <<>>)
    ELSE IF Len(j.Metrics) = 0
    THEN Returned(DiscoveryMetricsError(j, jobIdx), <<>>)
    ELSE rangeMetrics(j.Metrics, 1, DiscoveryParent(j, jobIdx), <<j>>, <<>>)

validateDiscoveryJob(j, jobIdx) ==
    IF j.Type # "" /\ ~stringInSlice(j.Type, supportedServices)
    THEN Returned(UnknownServiceError(j, jobIdx), <<>>)
    ELSE IF j.Type = ""
    THEN Returned(EmptyTypeError(jobIdx), <<>>)
    ELSE IF Len(j.Regions) = 0
    THEN Returned(DiscoveryRegionsError(j, jobIdx), <<>>)
    ELSE IF Len(j.Metrics) = 0
    THEN Returned(DiscoveryMetricsError(j, jobIdx), <<>>)
    ELSE rangeMetrics(j.Metrics, 1, DiscoveryParent(j, jobIdx), <<j>>, <<>>)

\* The mutant: the Namespace check is missing.
validateStaticJobNoNamespace(j, jobIdx) ==
    IF j.Name = ""
    THEN Returned(StaticNameError(jobIdx), <<>>)
    ELSE IF Len(j.Regions) = 0
    THEN Returned(StaticRegionsError(j, jobIdx), <<>>)
    ELSE rangeMetrics(j.Metrics, 1, StaticParent(j, jobIdx), <<>>, <<>>)

validateStaticJob(j, jobIdx) ==
    IF j.Name = ""
    THEN Returned(StaticNameError(jobIdx), <<>>)
    ELSE IF j.Namespace = ""
    THEN Returned(StaticNamespaceError(j, jobIdx), <<>>)
    ELSE IF Len(j.Regions) = 0
    THEN Returned(StaticRegionsError(j, jobIdx), <<>>)
    ELSE rangeMetrics(j.Metrics, 1, StaticParent(j, jobIdx), <<>>, <<>>)

\* for idx, job := range c.Discovery.Jobs { validateDiscoveryJob(job, idx) }
RECURSIVE rangeDiscoveryJobs(_, _, _)
rangeDiscoveryJobs(jobs, i, logged) ==
    IF i > Len(jobs) THEN Returned(NoError, logged)
    ELSE LET r == validateDiscoveryJob(jobs[i], i - 1)
         IN  IF r.err # NoError THEN Returned(r.err, logged \o r.log)
             ELSE rangeDiscoveryJobs(jobs, i + 1, logged \o r.log)

\* for idx, job := range c.Static { validateStaticJob(job, idx) }
RECURSIVE rangeStaticJobs(_, _, _)
rangeStaticJobs(jobs, i, logged) ==
    IF i > Len(jobs) THEN Returned(NoError, logged)
    ELSE LET r == validateStaticJob(jobs[i], i - 1)
         IN  IF r.err # NoError THEN Returned(r.err, logged \o r.log)
             ELSE rangeStaticJobs(jobs, i + 1, logged \o r.log)

\* The mutant: the static jobs are validated before the discovery jobs.
validateStaticFirst(conf) ==
    IF conf.Discovery.Jobs.nil /\ conf.Static.nil
    THEN Returned(RootError, <<>>)
    ELSE LET s == rangeStaticJobs(conf.Static.elems, 1, <<>>)
         IN  IF s.err # NoError THEN s
             ELSE rangeDiscoveryJobs(conf.Discovery.Jobs.elems, 1, s.log)

validate(conf) ==
    IF conf.Discovery.Jobs.nil /\ conf.Static.nil
    THEN Returned(RootError, <<>>)
    ELSE LET d == rangeDiscoveryJobs(conf.Discovery.Jobs.elems, 1, <<>>)
         IN  IF d.err # NoError THEN d
             ELSE rangeStaticJobs(conf.Static.elems, 1, d.log)

-----------------------------------------------------------------------------
(* Load.  A file is [status, doc]: "unreadable" makes ioutil.ReadFile      *)
(* fail, "malformed" is text the YAML parser rejects before any field is   *)
(* set, "ok" is a document that decodes.  (A document that parses but      *)
(* holds a value of the wrong type for a field is not among the files.)    *)

ReadError == <<"open: no such file or directory">>
ParseError == <<"yaml: did not find expected node content">>

\* What Load leaves and returns when called on receiver conf with file f:
\* the receiver, the receiver as decoded, the error and the log.
LoadResult(conf, f) ==
    IF f.status = "unreadable"
    THEN [c |-> conf, decoded |-> conf, err |-> ReadError, log |-> <<>>]
    ELSE IF f.status = "malformed"
    THEN [c |-> conf, decoded |-> conf, err |-> ParseError, log |-> <<>>]
    ELSE LET u == Unmarshal(f.doc, conf)
             n == setRoleArnsDefaults(u)
             v == validate(n)
         IN  [c |-> n, decoded |-> u, err |-> v.err, log |-> v.log]

-----------------------------------------------------------------------------
(* The documents.  A document has a shape <<discovery.jobs tag, number of  *)
(* discovery jobs, static tag, number of static jobs, metrics per job>>    *)
(* and starts as the valid document of that shape; up to two edits, each   *)
(* setting one key of one job or metric to another value, are then made.   *)

BaseDiscoveryMetric ==
    [name |-> "CPUUtilization", statistics |-> <<"Average">>,
     additionalDimensions |-> <<>>, period |-> 0, length |-> 0, delay |-> 0,
     nilToZero |-> FALSE, addCloudwatchTimestamp |-> FALSE]

BaseStaticMetric ==
    [name |-> "Latency", statistics |-> <<"Maximum">>,
     additionalDimensions |-> <<>>, period |-> 300, length |-> 300, delay |-> 0,
     nilToZero |-> FALSE, addCloudwatchTimestamp |-> FALSE]

AbsentNode == [tag |-> "absent", items |-> <<>>]
NullNode   == [tag |-> "null", items |-> <<>>]
SeqNode(s) == [tag |-> "seq", items |-> s]

BaseDiscoveryJob(nm) ==
    [period |-> 300, length |-> 300, delay |-> 0,
     addCloudwatchTimestamp |-> FALSE,
     regions |-> <<"eu-west-1">>, type |-> "ec2", roleArns |-> AbsentNode,
     awsDimensions |-> <<>>, searchTags |-> <<>>, customTags |-> <<>>,
     metrics |-> [k \in 1..nm |-> BaseDiscoveryMetric]]

BaseStaticJob(nm) ==
    [name |-> "x", regions |-> <<"eu-west-1">>, roleArns |-> AbsentNode,
     customTags |-> <<>>,
     metrics |-> [k \in 1..nm |-> BaseStaticMetric],
     namespace |-> "AWS/ELB",
     dimensions |-> << [name |-> "LoadBalancerName", value |-> "lb"] >>]

AbsentTags == [entries |-> <<>>, tag |-> "absent"]

Node(tag, items) == IF tag = "seq" THEN SeqNode(items)
                    ELSE IF tag = "null" THEN NullNode ELSE AbsentNode

BaseDoc(shape) ==
    [discovery |->
        [exportedTagsOnMetrics |-> AbsentTags,
         jobs |-> Node(shape[1], [j \in 1..shape[2] |-> BaseDiscoveryJob(shape[5])])],
     static |-> Node(shape[3], [j \in 1..shape[4] |-> BaseStaticJob(shape[5])])]

RoleArn == "arn:aws:iam::123456789012:role/monitoring"

DiscoveryJobEdits ==
    << [key |-> "type",     to |-> ""],
       [key |-> "type",     to |-> "notarealservice"],
       [key |-> "type",     to |-> "EC2"],
       [key |-> "regions",  to |-> <<>>],
       [key |-> "roleArns", to |-> SeqNode(<<>>)],
       [key |-> "roleArns", to |-> SeqNode(<<RoleArn>>)],
       [key |-> "period",   to |-> 0],
       [key |-> "period",   to |-> 600],
       [key |-> "length",   to |-> 0],
       [key |-> "length",   to |-> 60],
       [key |-> "metrics",  to |-> <<>>],
       [key |-> "delay",    to |-> 120] >>

DiscoveryMetricEdits ==
    << [key |-> "name",       to |-> ""],
       [key |-> "statistics", to |-> <<>>],
       [key |-> "period",     to |-> -1],
       [key |-> "period",     to |-> 60],
       [key |-> "period",     to |-> 600],
       [key |-> "length",     to |-> 60],
       [key |-> "length",     to |-> 600],
       [key |-> "nilToZero",  to |-> TRUE] >>

StaticJobEdits ==
    << [key |-> "name",      to |-> ""],
       [key |-> "namespace", to |-> ""],
       [key |-> "regions",   to |-> <<>>],
       [key |-> "roleArns",  to |-> SeqNode(<<>>)],
       [key |-> "roleArns",  to |-> SeqNode(<<RoleArn>>)],
       [key |-> "metrics",   to |-> <<>>] >>

StaticMetricEdits ==
    << [key |-> "name",       to |-> ""],
       [key |-> "statistics", to |-> <<>>],
       [key |-> "period",     to |-> 0],
       [key |-> "period",     to |-> -1],
       [key |-> "period",     to |-> 600],
       [key |-> "length",     to |-> 0],
       [key |-> "length",     to |-> 60] >>

SomeTags ==
    [entries |-> [k \in {"ec2"} |-> <<"Name">>], tag |-> "map"]

\* An edit is <<kind, job, metric, n>>: the n-th edit of the list for that
\* kind of entity, made to the job (metric = 0) or to one of its metrics.
NoEdit == <<"none", 0, 0, 0>>

Set(entity, e) == [entity EXCEPT ![e.key] = e.to]

EditJob(job, m, jobEdits, metricEdits, n) ==
    IF m = 0 THEN Set(job, jobEdits[n])
    ELSE IF m > Len(job.metrics) THEN job
    ELSE [job EXCEPT !.metrics[m] = Set(@, metricEdits[n])]

Apply(doc, p) ==
    CASE p[1] = "d" ->
           [doc EXCEPT !.discovery.jobs.items[p[2]] =
               EditJob(@, p[3], DiscoveryJobEdits, DiscoveryMetricEdits, p[4])]
      [] p[1] = "s" ->
           [doc EXCEPT !.static.items[p[2]] =
               EditJob(@, p[3], StaticJobEdits, StaticMetricEdits, p[4])]
      [] p[1] = "t" ->
           [doc EXCEPT !.discovery.exportedTagsOnMetrics = SomeTags]
      [] OTHER -> doc

Edits(shape) ==
    {NoEdit, <<"t", 0, 0, 0>>}
    \cup {<<"d", j, 0, n>> : j \in 1..shape[2], n \in 1..Len(DiscoveryJobEdits)}
    \cup UNION {{<<"d", j, m, n>> : j \in 1..shape[2], n \in 1..Len(DiscoveryMetricEdits)}
                    : m \in 1..shape[5]}
    \cup {<<"s", j, 0, n>> : j \in 1..shape[4], n \in 1..Len(StaticJobEdits)}
    \cup UNION {{<<"s", j, m, n>> : j \in 1..shape[4], n \in 1..Len(StaticMetricEdits)}
                    : m \in 1..shape[5]}

Shapes(maxD, maxS, maxM) ==
    {<<dt, IF dt = "seq" THEN nd ELSE 0, st, IF st = "seq" THEN ns ELSE 0, nm>> :
        dt \in {"absent", "null", "seq"}, nd \in 0..maxD,
        st \in {"absent", "null", "seq"}, ns \in 0..maxS, nm \in 1..maxM}

EmptyDoc == BaseDoc(<<"absent", 0, "absent", 0, 1>>)

ReadableFile(d) == [doc |-> d, status |-> "ok"]
UnreadableFile == [doc |-> EmptyDoc, status |-> "unreadable"]
MalformedFile == [doc |-> EmptyDoc, status |-> "malformed"]

-----------------------------------------------------------------------------
(* Load(file) on the receiver c, whole: read, decode, default, validate. *)

Load(f) ==
    \E r \in {LoadResult(c, f)} :
        /\ file' = f
        /\ c' = r.c
        /\ decoded' = r.decoded
        /\ err' = r.err
        /\ log' = r.log
        /\ pc' = "done"

(* The program of the test: config = ScrapeConf{}, then one config.Load.  *)
(* The file starts as the valid document of some shape; it is loaded after *)
(* up to two edits, or after it became unreadable or malformed.            *)

Init ==
    /\ c = ZeroScrapeConf
    /\ \E sh \in Shapes(MaxDiscoveryJobs, MaxStaticJobs, MaxMetrics) :
          file = ReadableFile(BaseDoc(sh))
    /\ decoded = ZeroScrapeConf
    /\ err = NoError
    /\ log = <<>>
    /\ pc = "start"

MetricsPerJob(doc) ==
    IF Len(doc.discovery.jobs.items) > 0 THEN Len(doc.discovery.jobs.items[1].metrics)
    ELSE IF Len(doc.static.items) > 0 THEN Len(doc.static.items[1].metrics)
    ELSE 1

ShapeOf(doc) ==
    <<doc.discovery.jobs.tag, Len(doc.discovery.jobs.items),
      doc.static.tag, Len(doc.static.items), MetricsPerJob(doc)>>

\* Edits are made in the order of Rank: in the other order they give the
\* same document, or one that a single edit gives.
Rank(p) ==
    (CASE p[1] = "none" -> 0 [] p[1] = "t" -> 1 [] p[1] = "d" -> 2 [] OTHER -> 3)
        * 1000000 + p[2] * 10000 + p[3] * 100 + p[4]

LoadDocument ==
    /\ pc = "start"
    /\ \E E \in {Edits(ShapeOf(file.doc))} :
         \E p \in E, q \in E :
            /\ Rank(p) <= Rank(q)
            /\ Load(ReadableFile(Apply(Apply(file.doc, p), q)))

LoadBroken ==
    /\ pc = "start"
    /\ (Load(UnreadableFile) \/ Load(MalformedFile))

Next == LoadDocument \/ LoadBroken

Spec == Init /\ [][Next]_vars

-----------------------------------------------------------------------------
(* A program that keeps its ScrapeConf: Load is called again and again on  *)
(* the same receiver, each time with a file of at most one job of a kind,  *)
(* one metric a job and one edit to a job; the receiver may be reset in    *)
(* between, as the test does.                                              *)

InitReload ==
    /\ c = ZeroScrapeConf
    /\ file = ReadableFile(EmptyDoc)
    /\ decoded = ZeroScrapeConf
    /\ err = NoError
    /\ log = <<>>
    /\ pc = "start"

Reload ==
    \E sh \in Shapes(1, 1, 1) :
       \E p \in {e \in Edits(sh) : e[3] = 0} :
          Load(ReadableFile(Apply(BaseDoc(sh), p)))

ReloadBroken == Load(UnreadableFile) \/ Load(MalformedFile)

\* config = ScrapeConf{}
Reset ==
    /\ c # ZeroScrapeConf
    /\ c' = ZeroScrapeConf
    /\ pc' = "start"
    /\ UNCHANGED <<file, decoded, err, log>>

NextReload == Reload \/ ReloadBroken \/ Reset

SpecReload == InitReload /\ [][NextReload]_vars

-----------------------------------------------------------------------------
(* The rules as the specification states them, over a configuration tree. *)

SupportedSet == {supportedServices[k] : k \in DOMAIN supportedServices}

\* job is <<>> for a metric of a static job, <<j>> for one of discovery job j.
EffectivePeriod(m, job) ==
    IF m.Period # 0 THEN m.Period ELSE IF job # <<>> THEN job[1].Period ELSE 0

EffectiveLength(m, job) ==
    IF m.Length # 0 THEN m.Length ELSE IF job # <<>> THEN job[1].Length ELSE 0

MetricOK(m, job) ==
    m.Name # "" /\ Len(m.Statistics) > 0 /\ EffectivePeriod(m, job) >= 1

DiscoveryJobOK(j) ==
    /\ j.Type # "" /\ j.Type \in SupportedSet
    /\ Len(j.Regions) > 0
    /\ Len(j.Metrics) > 0
    /\ \A k \in 1..Len(j.Metrics) : MetricOK(j.Metrics[k], <<j>>)

StaticJobOK(j) ==
    /\ j.Name # "" /\ j.Namespace # "" /\ Len(j.Regions) > 0
    /\ \A k \in 1..Len(j.Metrics) : MetricOK(j.Metrics[k], <<>>)

DiscoveryJobs == c.Discovery.Jobs.elems
StaticJobs == c.Static.elems

\* Load returned, having got past decoding.
Loaded == pc = "done" /\ file.status = "ok"

DocJobs == file.doc.discovery.jobs
DocStatic == file.doc.static
NoJobsIn(node) == node.tag # "seq" \/ Len(node.items) = 0

(* A site is a place validation checks: <<1, j, 0>> the fields of          *)
(* discovery job j, <<1, j, k>> its k-th metric, <<2, j, 0>> and           *)
(* <<2, j, k>> the same for static job j.  Sites are checked in            *)
(* lexicographic order.                                                    *)

Sites ==
    {<<1, j, 0>> : j \in 1..Len(DiscoveryJobs)}
    \cup UNION {{<<1, j, k>> : k \in 1..Len(DiscoveryJobs[j].Metrics)}
                   : j \in 1..Len(DiscoveryJobs)}
    \cup {<<2, j, 0>> : j \in 1..Len(StaticJobs)}
    \cup UNION {{<<2, j, k>> : k \in 1..Len(StaticJobs[j].Metrics)}
                   : j \in 1..Len(StaticJobs)}

Before(s, t) ==
    \/ s[1] < t[1]
    \/ s[1] = t[1] /\ s[2] < t[2]
    \/ s[1] = t[1] /\ s[2] = t[2] /\ s[3] < t[3]

SiteJob(s) == IF s[1] = 1 THEN DiscoveryJobs[s[2]] ELSE StaticJobs[s[2]]
SiteParent(s) == IF s[1] = 1 THEN DiscoveryParent(SiteJob(s), s[2] - 1)
                 ELSE StaticParent(SiteJob(s), s[2] - 1)
SiteScope(s) == IF s[1] = 1 THEN <<SiteJob(s)>> ELSE <<>>

\* The error of the rule broken at a site, NoError when none is.
SiteError(s) ==
    LET j == SiteJob(s)
        idx == s[2] - 1
    IN  IF s[3] = 0 /\ s[1] = 1 THEN
            IF j.Type = "" THEN EmptyTypeError(idx)
            ELSE IF j.Type \notin SupportedSet THEN UnknownServiceError(j, idx)
            ELSE IF Len(j.Regions) = 0 THEN DiscoveryRegionsError(j, idx)
            ELSE IF Len(j.Metrics) = 0 THEN DiscoveryMetricsError(j, idx)
            ELSE NoError
        ELSE IF s[3] = 0 THEN
            IF j.Name = "" THEN StaticNameError(idx)
            ELSE IF j.Namespace = "" THEN StaticNamespaceError(j, idx)
            ELSE IF Len(j.Regions) = 0 THEN StaticRegionsError(j, idx)
            ELSE NoError
        ELSE LET m == j.Metrics[s[3]]
             IN  IF m.Name = "" THEN MetricNameError(m, s[3] - 1, SiteParent(s))
                 ELSE IF Len(m.Statistics) = 0
                      THEN MetricStatisticsError(m, s[3] - 1, SiteParent(s))
                 ELSE IF EffectivePeriod(m, SiteScope(s)) < 1
                      THEN MetricPeriodError(m, s[3] - 1, SiteParent(s))
                 ELSE NoError

Violations == {s \in Sites : SiteError(s) # NoError}

\* The first of a non-empty set of sites, in the order validation checks them.
First(V) == CHOOSE s \in V : \A t \in V : t = s \/ Before(s, t)

\* The metric sites validation gets to, given the violations V, whose metric
\* passes its checks with an effective length under its effective period:
\* all such sites when V is empty, else those before the first violation.
ShortLengthExamined(V) ==
    LET reached == IF V = {} THEN Sites
                   ELSE LET first == First(V)
                        IN  {s \in Sites : Before(s, first)}
    IN  {s \in reached :
            /\ s[3] > 0
            /\ LET m == SiteJob(s).Metrics[s[3]]
               IN  EffectiveLength(m, SiteScope(s)) < EffectivePeriod(m, SiteScope(s))}

\* The warning logged for such a site.
SiteWarning(s) ==
    LET m == SiteJob(s).Metrics[s[3]]
    IN  LengthWarning(m, s[3] - 1, SiteParent(s),
                      EffectiveLength(m, SiteScope(s)), EffectivePeriod(m, SiteScope(s)))

\* The sites of a set, in the order validation checks them.
RECURSIVE InOrder(_)
InOrder(S) ==
    IF S = {} THEN <<>>
    ELSE LET s == CHOOSE x \in S : \A y \in S : y = x \/ Before(x, y)
         IN  <<s>> \o InOrder(S \ {s})

-----------------------------------------------------------------------------
(* The claims. *)

\* C1: Load fails with "At least 1 Discovery job or 1 Static must be defined"
\* for every document whose discovery job list and static job list are both
\* empty, whether absent, null or an explicitly empty sequence.
C1_RootErrorWhenBothEmpty ==
    (Loaded /\ NoJobsIn(DocJobs) /\ NoJobsIn(DocStatic)) => err = RootError

\* C2: whenever Load returns no error, every discovery job has a non-empty
\* Type of the supported list, non-empty Regions and Metrics, every static
\* job has non-empty Name, Namespace and Regions, and every metric has a
\* non-empty Name, non-empty Statistics and an effective period of at least 1.
C2_LoadedIsValid ==
    (pc = "done" /\ err = NoError) =>
        /\ \A i \in 1..Len(DiscoveryJobs) : DiscoveryJobOK(DiscoveryJobs[i])
        /\ \A i \in 1..Len(StaticJobs) : StaticJobOK(StaticJobs[i])

C2_Witness ==
    /\ pc = "done" /\ err = NoError
    /\ Len(DiscoveryJobs) = 2 /\ Len(StaticJobs) = 2
    /\ Len(DiscoveryJobs[2].Metrics) = 2
    /\ DiscoveryJobs[2].Metrics[2].Period = 0

\* The discovery jobs of the document with a Type outside the supported list.
UnsupportedInDoc ==
    {i \in 1..Len(DocJobs.items) : DocJobs.items[i].type \notin SupportedSet}

\* C3 as stated: for every document containing a discovery job whose Type is
\* outside the supported list, at any position and whatever the other jobs
\* hold, Load fails and the error message contains that type string.
C3_ErrorNamesEveryUnsupportedType ==
    Loaded =>
        \A i \in UnsupportedInDoc :
            err # NoError /\ Contains(err, DocJobs.items[i].type)

\* C3 amended: Load fails for every such document, and the message contains
\* the type string of an unsupported job when every discovery job before it
\* passes validation.
C3_ErrorNamesFirstUnsupportedType ==
    Loaded =>
        \A i \in UnsupportedInDoc :
            /\ err # NoError
            /\ (\A k \in 1..(i - 1) : DiscoveryJobOK(DiscoveryJobs[k]))
                  => Contains(err, DocJobs.items[i].type)

C3_Witness ==
    /\ Loaded
    /\ 2 \in UnsupportedInDoc
    /\ DocJobs.items[2].type = "notarealservice"
    /\ DiscoveryJobOK(DiscoveryJobs[1])
    /\ err = UnknownServiceError(DiscoveryJobs[2], 1)

\* Every metric of the tree with its index, parent text and enclosing
\* discovery job, as validateMetric is called on it.
MetricSites == {s \in Sites : s[3] > 0}
ValidatedAt(s) ==
    validateMetric(SiteJob(s).Metrics[s[3]], s[3] - 1, SiteParent(s), SiteScope(s))
PeriodErrorAt(s) ==
    MetricPeriodError(SiteJob(s).Metrics[s[3]], s[3] - 1, SiteParent(s))

\* C4 as stated: validation of a metric fails with "Period value should be a
\* positive integer" exactly when its effective period is less than 1.
C4_PeriodErrorIffPeriodBelowOne ==
    Loaded =>
        \A s \in MetricSites :
            (ValidatedAt(s).err = PeriodErrorAt(s))
                <=> (EffectivePeriod(SiteJob(s).Metrics[s[3]], SiteScope(s)) < 1)

\* C4 amended: validation of a metric fails with the period error exactly
\* when its Name and Statistics are non-empty and its effective period (own
\* Period if non-zero, else the discovery job's, else zero) is less than 1;
\* a discovery metric with Period 0 under a job with Period > 0 passes the
\* period check, and a static metric with Period 0 makes Load fail.
C4_PeriodErrorIffChecksReachedAndBelowOne ==
    Loaded =>
        /\ \A s \in MetricSites :
              LET m == SiteJob(s).Metrics[s[3]]
                  periodError == ValidatedAt(s).err = PeriodErrorAt(s)
              IN  /\ periodError
                        <=> (/\ m.Name # ""
                             /\ Len(m.Statistics) > 0
                             /\ EffectivePeriod(m, SiteScope(s)) < 1)
                  /\ (s[1] = 1 /\ m.Period = 0 /\ SiteJob(s).Period > 0)
                        => ~periodError
                  /\ (s[1] = 2 /\ m.Period = 0) => err # NoError

C4_Witness ==
    /\ Loaded
    /\ Len(StaticJobs) = 1 /\ Len(StaticJobs[1].Metrics) = 2
    /\ StaticJobs[1].Metrics[2].Period = 0
    /\ err = PeriodErrorAt(<<2, 1, 2>>)
    /\ Len(DiscoveryJobs) = 1
    /\ DiscoveryJobs[1].Period = 600 /\ DiscoveryJobs[1].Metrics[1].Period = 0

\* C5: validation is fail-fast in a fixed order, discovery jobs in sequence
\* order, then static jobs in sequence order, a job's own fields before its
\* metrics, its metrics in sequence order (the root check comes first: it
\* fails only for a tree without jobs).  The error returned is the one of
\* the first violation in that order, and no warning is logged for an entity
\* that comes after it.
C5_FirstViolationWins ==
    Loaded =>
        LET V == Violations
            reached == ShortLengthExamined(V)
        IN  /\ IF V = {} THEN err \in {NoError, RootError}
               ELSE err = SiteError(First(V))
            /\ \A n \in 1..Len(log) : \E s \in reached : log[n] = SiteWarning(s)

C5_Witness ==
    /\ Loaded
    /\ LET V == Violations
       IN  Cardinality(V) >= 2 /\ First(V)[1] = 1 /\ First(V)[2] = 2
    /\ Len(log) = 2

\* What the document says of a RoleArns list: empty when the key is omitted
\* or holds an empty sequence.
DocRoleArns(node) == IF node.tag = "seq" THEN node.items ELSE <<>>
DefaultedFrom(node) == IF Len(DocRoleArns(node)) = 0 THEN <<"">> ELSE DocRoleArns(node)

\* C6: after any Load that gets past decoding, whether validation succeeds or
\* fails, every discovery and static job has a non-empty RoleArns: [""] when
\* the list was empty or omitted in the document, else the document's list.
C6_RoleArnsDefaulted ==
    Loaded =>
        /\ Len(DiscoveryJobs) = Len(DocJobs.items)
        /\ Len(StaticJobs) = Len(DocStatic.items)
        /\ \A i \in 1..Len(DiscoveryJobs) :
              /\ Len(DiscoveryJobs[i].RoleArns) > 0
              /\ DiscoveryJobs[i].RoleArns = DefaultedFrom(DocJobs.items[i].roleArns)
        /\ \A i \in 1..Len(StaticJobs) :
              /\ Len(StaticJobs[i].RoleArns) > 0
              /\ StaticJobs[i].RoleArns = DefaultedFrom(DocStatic.items[i].roleArns)

C6_Witness ==
    /\ Loaded /\ err # NoError
    /\ Len(DiscoveryJobs) = 1 /\ Len(StaticJobs) = 2
    /\ DiscoveryJobs[1].RoleArns = <<"">>
    /\ StaticJobs[1].RoleArns = <<"">>
    /\ DocStatic.items[1].roleArns.tag = "absent"
    /\ StaticJobs[2].RoleArns = <<RoleArn>>

\* The file with every length of its document, of jobs and metrics, set to 0.
WithoutLengths(f) ==
    LET metric(md) == [md EXCEPT !.length = 0]
        metrics(ms) == [k \in 1..Len(ms) |-> metric(ms[k])]
    IN  [f EXCEPT
           !.doc.discovery.jobs.items =
               [i \in 1..Len(@) |->
                   [@[i] EXCEPT !.length = 0, !.metrics = metrics(@)]],
           !.doc.static.items =
               [i \in 1..Len(@) |-> [@[i] EXCEPT !.metrics = metrics(@)]]]

\* C7: a metric whose effective length is less than its effective period
\* never makes Load fail: the error Load returns is the same whatever the
\* Length values of the document are, and a warning is logged for a metric
\* exactly when validation gets to it, it passes the Name, Statistics and
\* period checks, and its effective length is less than its effective period.
C7_ShortLengthOnlyWarns ==
    Loaded =>
        /\ err = LoadResult(ZeroScrapeConf, WithoutLengths(file)).err
        /\ LET expected == InOrder(ShortLengthExamined(Violations))
           IN  log = [n \in 1..Len(expected) |-> SiteWarning(expected[n])]

C7_Witness ==
    /\ Loaded /\ err = NoError
    /\ Len(DiscoveryJobs) = 1 /\ Len(StaticJobs) = 1
    /\ DiscoveryJobs[1].Length = 60
    /\ DiscoveryJobs[1].Metrics[1].Length = 0
    /\ Len(StaticJobs[1].Metrics) > 0
    /\ StaticJobs[1].Metrics[1].Length = 0
    /\ Len(log) = 2

\* C8: every static job of a successfully loaded configuration has a
\* non-empty Metrics list.
C8_StaticJobsHaveMetrics ==
    (pc = "done" /\ err = NoError) =>
        \A i \in 1..Len(StaticJobs) : Len(StaticJobs[i].Metrics) > 0

\* C9: the outcome of Load, error and resulting tree, depends only on the
\* document loaded: it is what loading the same file into a fresh ScrapeConf
\* gives, whatever the receiver loaded before.
C9_LoadHasNoMemory ==
    pc = "done" =>
        LET fresh == LoadResult(ZeroScrapeConf, file)
        IN  c = fresh.c /\ err = fresh.err

\* The tree with every RoleArns list emptied.
WithoutRoleArns(conf) ==
    [conf EXCEPT
       !.Discovery.Jobs.elems = [n \in 1..Len(@) |-> [@[n] EXCEPT !.RoleArns = <<>>]],
       !.Static.elems         = [n \in 1..Len(@) |-> [@[n] EXCEPT !.RoleArns = <<>>]]]

\* C10: apart from the RoleArns defaults, Load leaves the decoded tree as it
\* was decoded: every field of every job and metric holds the decoded value,
\* and every metric's Period and Length are those of the document, also for
\* a discovery metric that inherited them from its job for the checks.
C10_OnlyRoleArnsChange ==
    Loaded =>
        /\ WithoutRoleArns(c) = WithoutRoleArns(decoded)
        /\ \A i \in 1..Len(DiscoveryJobs) :
              \A k \in 1..Len(DiscoveryJobs[i].Metrics) :
                 /\ DiscoveryJobs[i].Metrics[k].Period = DocJobs.items[i].metrics[k].period
                 /\ DiscoveryJobs[i].Metrics[k].Length = DocJobs.items[i].metrics[k].length
        /\ \A i \in 1..Len(StaticJobs) :
              \A k \in 1..Len(StaticJobs[i].Metrics) :
                 /\ StaticJobs[i].Metrics[k].Period = DocStatic.items[i].metrics[k].period
                 /\ StaticJobs[i].Metrics[k].Length = DocStatic.items[i].metrics[k].length

C10_Witness ==
    /\ Loaded /\ err = NoError
    /\ Len(DiscoveryJobs) = 2
    /\ DiscoveryJobs[1].Period = 600 /\ DiscoveryJobs[1].Length = 300
    /\ DiscoveryJobs[1].Metrics[1].Period = 0
    /\ DiscoveryJobs[1].Metrics[1].Length = 0
    /\ DiscoveryJobs[1].RoleArns = <<"">>
    /\ Len(log) > 0

=============================================================================
